---------------------------- MODULE Spec2Model ----------------------------
(***************************************************************************)
(* A model of the expense splitter in src/script.js: the Decimal module    *)
(* (money as decimal strings and integer cents), the State module (members,*)
(* expenses and their localStorage snapshot) and the Calculator (shares,   *)
(* balances, settlements).                                                 *)
(*                                                                         *)
(* A decimal string is a sequence of one-character strings, so that        *)
(* parsing and formatting are computed character by character.             *)
(***************************************************************************)
EXTENDS Integers, Sequences, FiniteSets, TLC

VARIABLES
    members,      \* State.members: sequence of [id, name, createdAt]
    expenses,     \* State.expenses: sequence of expense records
    currentStep,  \* State.currentStep
    feedback,     \* State.feedback: NoFeedback or [rating, text, timestamp]
    stored,       \* localStorage['expenseSplitterState'] (what JSON.parse yields)
    ret,          \* what the last State operation returned
    now,          \* Date.now()
    nextId,       \* number of ids State.generateId has handed out
    pc,           \* position of the call under study
    arg,          \* the argument of a Decimal call under study
    res,          \* the result of a Decimal call under study
    balances,     \* the balance list handed to calculateSettlements
    creditors,    \* calculateSettlements: the sorted creditor copies
    debtors,      \* calculateSettlements: the sorted debtor copies
    i,            \* calculateSettlements: cursor i (1-based)
    j,            \* calculateSettlements: cursor j (1-based)
    settlements,  \* calculateSettlements: the list being built
    run,          \* which call of calculateSettlements is running (1 or 2)
    outs          \* what finished Calculator calls returned, in call order

appVars  == <<members, expenses, currentStep, feedback, stored, ret, now, nextId>>
decVars  == <<arg, res>>
calcVars == <<balances, creditors, debtors, i, j, settlements, run, outs>>
vars     == <<members, expenses, currentStep, feedback, stored, ret, now, nextId,
              pc, arg, res, balances, creditors, debtors, i, j, settlements,
              run, outs>>

----------------------------------------------------------------------------
(* Bounds of the model.                                                    *)

MaxIntDigits == 2    \* digits before the point in the strings of SpecMoney
MaxTotal     == 45   \* largest total (cents) handed to divideEqually
MaxParts     == 5    \* largest part count handed to divideEqually

----------------------------------------------------------------------------
(* Characters and digit strings.                                           *)

Digits == <<"0", "1", "2", "3", "4", "5", "6", "7", "8", "9">>

DigitSet == {Digits[k] : k \in 1..10}

DigitChar(d) == Digits[d + 1]

DigitVal(c) == CHOOSE d \in 0..9 : Digits[d + 1] = c

IsDigit(c) == c \in DigitSet

RECURSIVE DigitsVal(_)
DigitsVal(ds) ==
    IF ds = <<>> THEN 0
    ELSE DigitsVal(SubSeq(ds, 1, Len(ds) - 1)) * 10 + DigitVal(ds[Len(ds)])

RECURSIVE NatToDigits(_)
NatToDigits(n) ==
    IF n < 10 THEN <<DigitChar(n)>>
    ELSE Append(NatToDigits(n \div 10), DigitChar(n % 10))

RECURSIVE Trim(_)
Trim(s) ==
    IF s = <<>> THEN s
    ELSE IF s[1] = " " THEN Trim(Tail(s))
    ELSE IF s[Len(s)] = " " THEN Trim(SubSeq(s, 1, Len(s) - 1))
    ELSE s

----------------------------------------------------------------------------
(* Decimal: src/script.js lines 6-63.                                      *)

(* The part of a trimmed string after an optional sign. *)
Unsigned(str) ==
    IF str # <<>> /\ str[1] \in {"-", "+"} THEN Tail(str) ELSE str

(* Number(str) is not NaN: the StrDecimalLiteral grammar over the model's   *)
(* characters (digits, sign, point): [+-] then d+ | d+. | d+.d+ | .d+       *)
IsNumeric(str) ==
    LET u    == Unsigned(str)
        dots == {k \in 1..Len(u) : u[k] = "."}
    IN  /\ Cardinality(dots) <= 1
        /\ \A k \in 1..Len(u) : k \in dots \/ IsDigit(u[k])
        /\ \E k \in 1..Len(u) : IsDigit(u[k])

IntDigits(u) ==
    IF \E k \in 1..Len(u) : u[k] = "."
    THEN SubSeq(u, 1, (CHOOSE k \in 1..Len(u) : u[k] = ".") - 1)
    ELSE u

FracDigits(u) ==
    IF \E k \in 1..Len(u) : u[k] = "."
    THEN SubSeq(u, (CHOOSE k \in 1..Len(u) : u[k] = ".") + 1, Len(u))
    ELSE <<>>

(* The cents of a fraction of at most two digits.  With at most two         *)
(* fraction digits and fewer than 2^51 cents, parseFloat(str) * 100 is      *)
(* within 1/2 of the exact number of cents, so Math.round returns it.       *)
(* Longer fractions are outside the model (no CASE arm).                    *)
FracCents(f) ==
    CASE Len(f) = 0 -> 0
      [] Len(f) = 1 -> 10 * DigitVal(f[1])
      [] Len(f) = 2 -> 10 * DigitVal(f[1]) + DigitVal(f[2])

toCents(decimalStr) ==
    LET str == Trim(decimalStr)
    IN  IF str = <<>> \/ ~IsNumeric(str) THEN 0
        ELSE LET u   == Unsigned(str)
                 mag == DigitsVal(IntDigits(u)) * 100 + FracCents(FracDigits(u))
             IN  IF str[1] = "-" THEN -mag ELSE mag

fromCentsNoPad(cents) ==
    LET a == IF cents < 0 THEN -cents ELSE cents
    IN  (IF cents < 0 THEN <<"-">> ELSE <<>>)
        \o NatToDigits(a \div 100) \o <<".">> \o NatToDigits(a % 100)

(* (cents / 100).toFixed(2): a minus sign for a negative number, the        *)
(* integer part, a point and exactly two fraction digits.                   *)
fromCents(cents) ==
    LET a == IF cents < 0 THEN -cents ELSE cents
    IN  (IF cents < 0 THEN <<"-">> ELSE <<>>)
        \o NatToDigits(a \div 100)
        \o <<".", DigitChar((a % 100) \div 10), DigitChar(a % 10)>>

compare(a, b) == toCents(a) - toCents(b)

divideEquallyNoRemainder(amount, parts) ==
    IF parts <= 0 THEN <<>>
    ELSE [k \in 1..parts |-> fromCents(toCents(amount) \div parts)]

divideEquallyRemainderLast(amount, parts) ==
    IF parts <= 0 THEN <<>>
    ELSE LET totalCents == toCents(amount)
             baseCents  == totalCents \div parts
             remainder  == totalCents - (baseCents * parts)
         IN  [k \in 1..parts |->
                 fromCents(baseCents + (IF parts - k < remainder THEN 1 ELSE 0))]

(* Math.floor(totalCents / parts) is \div for parts > 0; the for loop adds  *)
(* one cent to shares[0 .. remainder-1].                                    *)
divideEqually(amount, parts) ==
    IF parts <= 0 THEN <<>>
    ELSE LET totalCents == toCents(amount)
             baseCents  == totalCents \div parts
             remainder  == totalCents - (baseCents * parts)
         IN  [k \in 1..parts |->
                 fromCents(baseCents + (IF k - 1 < remainder THEN 1 ELSE 0))]

----------------------------------------------------------------------------
(* Bounds and input sets of the State machine.                              *)

MaxMembers  == 2    \* members in State.members
MaxExpenses == 2    \* expenses in State.expenses
MaxSplit    == 2    \* length of a splitBetween argument
MaxIds      == 3    \* ids State.generateId hands out in one run
MaxTime     == 1    \* last value of Date.now()
MaxStep     == 2    \* largest step handed to State.setCurrentStep

NoId == 0            \* the empty string of an unselected <select>

NameInputs ==
    { <<>>, <<" ">>, <<"a">>, <<"A">>, <<" ", "a", " ">>, <<"b">> }

TitleInputs == { <<>>, <<" ">>, <<"t">> }

AmountInputs ==
    { <<>>, <<"x">>, <<"0">>, <<"-", "1", ".", "0", "0">>,
      <<"0", ".", "0", "1">>, <<"1">> }

RECURSIVE SeqsUpTo(_, _)
SeqsUpTo(S, n) ==
    IF n = 0 THEN {<<>>}
    ELSE LET shorter == SeqsUpTo(S, n - 1)
         IN  shorter \cup {Append(q, x) : q \in shorter, x \in S}

Lower(c) ==
    CASE c = "A" -> "a"
      [] c = "B" -> "b"
      [] OTHER -> c

toLowerCase(s) == [k \in 1..Len(s) |-> Lower(s[k])]

Ids(list) == {list[k].id : k \in 1..Len(list)}

----------------------------------------------------------------------------
(* State: src/script.js lines 67-207.                                      *)

NoFeedback == [isNull |-> TRUE]

(* null, as returned by the named operation. *)
NullOf(op) == [kind |-> "null", op |-> op]

(* JSON.stringify of the four fields; JSON.parse gives back the same        *)
(* strings, numbers, arrays and objects.                                    *)
Snapshot(ms, es, step, fb) ==
    [members |-> ms, expenses |-> es, currentStep |-> step, feedback |-> fb]

(* State.init on a stored snapshot (a page load): the fields of the parsed  *)
(* snapshot, with currentStep || 1, then persist().                         *)
StateInit ==
    /\ pc = "app"
    /\ members' = stored.members
    /\ expenses' = stored.expenses
    /\ currentStep' = (IF stored.currentStep = 0 THEN 1 ELSE stored.currentStep)
    /\ feedback' = stored.feedback
    /\ stored' = Snapshot(members', expenses', currentStep', feedback')
    /\ ret' = [kind |-> "undefined"]
    /\ UNCHANGED <<now, nextId, pc, decVars, calcVars>>

setCurrentStep(step) ==
    /\ pc = "app"
    /\ currentStep' = step
    /\ stored' = Snapshot(members, expenses, step, feedback)
    /\ ret' = [kind |-> "undefined"]
    /\ UNCHANGED <<members, expenses, feedback, now, nextId, pc, decVars, calcVars>>

addMemberNoCaseFold(name) ==
    LET trimmedName == Trim(name)
    IN  /\ pc = "app"
        /\ IF trimmedName = <<>>
              \/ \E k \in 1..Len(members) : members[k].name = trimmedName
           THEN /\ ret' = NullOf("addMember")
                /\ UNCHANGED <<members, stored, nextId>>
           ELSE /\ nextId < MaxIds
                /\ Len(members) < MaxMembers
                /\ LET member == [id |-> nextId + 1, name |-> trimmedName,
                                  createdAt |-> now]
                   IN  /\ members' = Append(members, member)
                       /\ ret' = [kind |-> "member", id |-> member.id]
                /\ nextId' = nextId + 1
                /\ stored' = Snapshot(members', expenses, currentStep, feedback)
        /\ UNCHANGED <<expenses, currentStep, feedback, now, pc, decVars, calcVars>>

addMember(name) ==
    LET trimmedName == Trim(name)
    IN  /\ pc = "app"
        /\ IF trimmedName = <<>>
              \/ \E k \in 1..Len(members) :
                    toLowerCase(members[k].name) = toLowerCase(trimmedName)
           THEN /\ ret' = NullOf("addMember")
                /\ UNCHANGED <<members, stored, nextId>>
           ELSE /\ nextId < MaxIds
                /\ Len(members) < MaxMembers
                /\ LET member == [id |-> nextId + 1, name |-> trimmedName,
                                  createdAt |-> now]
                   IN  /\ members' = Append(members, member)
                       /\ ret' = [kind |-> "member", id |-> member.id]
                /\ nextId' = nextId + 1
                /\ stored' = Snapshot(members', expenses, currentStep, feedback)
        /\ UNCHANGED <<expenses, currentStep, feedback, now, pc, decVars, calcVars>>

isInvolved(memberId) ==
    \E k \in 1..Len(expenses) :
        \/ expenses[k].paidBy = memberId
        \/ \E p \in 1..Len(expenses[k].splitBetween) :
              expenses[k].splitBetween[p] = memberId

isInvolvedPayerOnly(memberId) ==
    \E k \in 1..Len(expenses) : expenses[k].paidBy = memberId

removeMemberWith(involved, memberId) ==
    /\ pc = "app"
    /\ IF involved
       THEN /\ ret' = [kind |-> "bool", val |-> FALSE]
            /\ UNCHANGED <<members, stored>>
       ELSE /\ members' = SelectSeq(members, LAMBDA m : m.id # memberId)
            /\ stored' = Snapshot(members', expenses, currentStep, feedback)
            /\ ret' = [kind |-> "bool", val |-> TRUE]
    /\ UNCHANGED <<expenses, currentStep, feedback, now, nextId, pc, decVars, calcVars>>

removeMemberPayerOnly(memberId) ==
    removeMemberWith(isInvolvedPayerOnly(memberId), memberId)

removeMember(memberId) ==
    removeMemberWith(isInvolved(memberId), memberId)

addExpenseAcceptsAnyParticipant(title, amount, paidBy, splitBetween) ==
    /\ ~(Trim(title) = <<>> \/ amount = <<>> \/ paidBy = NoId
         \/ Len(splitBetween) = 0)
    /\ toCents(amount) > 0
    /\ paidBy \in Ids(members)

addExpenseAcceptsAnyAmount(title, amount, paidBy, splitBetween) ==
    /\ ~(Trim(title) = <<>> \/ amount = <<>> \/ paidBy = NoId
         \/ Len(splitBetween) = 0)
    /\ paidBy \in Ids(members)
    /\ \A p \in 1..Len(splitBetween) : splitBetween[p] \in Ids(members)

(* The checks of addExpense, in the code's order. *)
addExpenseAccepts(title, amount, paidBy, splitBetween) ==
    /\ ~(Trim(title) = <<>> \/ amount = <<>> \/ paidBy = NoId
         \/ Len(splitBetween) = 0)
    /\ toCents(amount) > 0
    /\ paidBy \in Ids(members)
    /\ \A p \in 1..Len(splitBetween) : splitBetween[p] \in Ids(members)

addExpense(title, amount, paidBy, splitBetween) ==
    /\ pc = "app"
    /\ IF ~addExpenseAccepts(title, amount, paidBy, splitBetween)
       THEN /\ ret' = NullOf("addExpense")
            /\ UNCHANGED <<expenses, stored, nextId>>
       ELSE /\ nextId < MaxIds
            /\ Len(expenses) < MaxExpenses
            /\ LET expense == [id |-> nextId + 1,
                               title |-> Trim(title),
                               amount |-> fromCents(toCents(amount)),
                               paidBy |-> paidBy,
                               splitBetween |-> splitBetween,
                               createdAt |-> now]
               IN  /\ expenses' = Append(expenses, expense)
                   /\ ret' = [kind |-> "expense", id |-> expense.id]
            /\ nextId' = nextId + 1
            /\ stored' = Snapshot(members, expenses', currentStep, feedback)
    /\ UNCHANGED <<members, currentStep, feedback, now, pc, decVars, calcVars>>

removeExpense(expenseId) ==
    /\ pc = "app"
    /\ expenses' = SelectSeq(expenses, LAMBDA e : e.id # expenseId)
    /\ stored' = Snapshot(members, expenses', currentStep, feedback)
    /\ ret' = [kind |-> "undefined"]
    /\ UNCHANGED <<members, currentStep, feedback, now, nextId, pc, decVars, calcVars>>

saveFeedback(rating, text) ==
    /\ pc = "app"
    /\ feedback' = [rating |-> rating, text |-> Trim(text), timestamp |-> now]
    /\ stored' = Snapshot(members, expenses, currentStep, feedback')
    /\ ret' = [kind |-> "undefined"]
    /\ UNCHANGED <<members, expenses, currentStep, now, nextId, pc, decVars, calcVars>>

clearAll ==
    /\ pc = "app"
    /\ members' = <<>>
    /\ expenses' = <<>>
    /\ currentStep' = 1
    /\ feedback' = NoFeedback
    /\ stored' = Snapshot(<<>>, <<>>, 1, NoFeedback)
    /\ ret' = [kind |-> "undefined"]
    /\ UNCHANGED <<now, nextId, pc, decVars, calcVars>>

NoSort(s, keys) == s

(* Array.prototype.sort with (a, b) => b.key - a.key, keys[k] being the key *)
(* of s[k]: descending by key, elements of equal key in their original      *)
(* order (the sort is stable).                                              *)
SortDescBy(s, keys) ==
    LET rank(k) ==
            1 + Cardinality({q \in 1..Len(s) :
                    keys[q] > keys[k] \/ (keys[q] = keys[k] /\ q < k)})
    IN  [n \in 1..Len(s) |-> s[CHOOSE k \in 1..Len(s) : rank(k) = n]]

CreatedAts(es) == [k \in 1..Len(es) |-> es[k].createdAt]

(* UI.renderExpenses: State.expenses.sort(...) sorts the array in place,    *)
(* newest first, and nothing persists the new order.                        *)
renderExpenses ==
    /\ pc = "app"
    /\ Len(expenses) # 0
    /\ expenses' = SortDescBy(expenses, CreatedAts(expenses))
    /\ UNCHANGED <<members, currentStep, feedback, stored, ret, now, nextId,
                   pc, decVars, calcVars>>

(* Date.now() moves on between two calls. *)
Tick ==
    /\ pc = "app"
    /\ now < MaxTime
    /\ now' = now + 1
    /\ UNCHANGED <<members, expenses, currentStep, feedback, stored, ret,
                   nextId, pc, decVars, calcVars>>

----------------------------------------------------------------------------
(* Calculator: src/script.js lines 211-311.                                *)

RECURSIVE SumSeq(_)
SumSeq(s) == IF s = <<>> THEN 0 ELSE s[1] + SumSeq(Tail(s))

Min(a, b) == IF a < b THEN a ELSE b

(* The keys of an object filled by assigning s[1], s[2], ... in turn: each  *)
(* id once, in the order of its first assignment.                           *)
RECURSIVE KeysInOrder(_)
KeysInOrder(s) ==
    IF s = <<>> THEN <<>>
    ELSE LET front == KeysInOrder(SubSeq(s, 1, Len(s) - 1))
             x     == s[Len(s)]
         IN  IF \E k \in 1..Len(front) : front[k] = x THEN front
             ELSE Append(front, x)

LastIndexOf(s, x) ==
    CHOOSE k \in 1..Len(s) : s[k] = x /\ \A q \in (k + 1)..Len(s) : s[q] # x

(* calculateExpenseShares: shares[memberId] = amounts[index] for each       *)
(* participant in turn, so a repeated id keeps the amount assigned last.    *)
(* The object is modelled by its entries in Object.entries order.           *)
calculateExpenseShares(expense) ==
    LET sb         == expense.splitBetween
        splitCount == Len(sb)
        amounts    == divideEqually(expense.amount, splitCount)
        keys       == KeysInOrder(sb)
    IN  [n \in 1..Len(keys) |->
            [memberId |-> keys[n], amount |-> amounts[LastIndexOf(sb, keys[n])]]]

(* balanceMap[id] is undefined for an id that is no member's, and reading   *)
(* .paidCents or .owedCents of undefined throws a TypeError.                *)
ReferencesDefined(ms, es) ==
    \A k \in 1..Len(es) :
        /\ es[k].paidBy \in Ids(ms)
        /\ \A p \in 1..Len(es[k].splitBetween) : es[k].splitBetween[p] \in Ids(ms)

PaidCents(es, memberId) ==
    SumSeq([k \in 1..Len(es) |->
        IF es[k].paidBy = memberId THEN toCents(es[k].amount) ELSE 0])

OwedCentsOthersOnly(es, memberId) ==
    SumSeq([k \in 1..Len(es) |->
        LET shares == calculateExpenseShares(es[k])
        IN  SumSeq([n \in 1..Len(shares) |->
                IF shares[n].memberId = memberId /\ es[k].paidBy # memberId
                THEN toCents(shares[n].amount) ELSE 0])])

OwedCents(es, memberId) ==
    SumSeq([k \in 1..Len(es) |->
        LET shares == calculateExpenseShares(es[k])
        IN  SumSeq([n \in 1..Len(shares) |->
                IF shares[n].memberId = memberId
                THEN toCents(shares[n].amount) ELSE 0])])

calculateBalances(ms, es) ==
    IF ~ReferencesDefined(ms, es) THEN [kind |-> "TypeError"]
    ELSE [kind |-> "ok",
          balances |->
            [k \in 1..Len(ms) |->
                [memberId   |-> ms[k].id,
                 name       |-> ms[k].name,
                 totalPaid  |-> fromCents(PaidCents(es, ms[k].id)),
                 totalOwed  |-> fromCents(OwedCents(es, ms[k].id)),
                 netBalance |-> fromCents(PaidCents(es, ms[k].id)
                                          - OwedCents(es, ms[k].id))]]]

Zero == <<"0", ".", "0", "0">>

AmountCents(list) == [k \in 1..Len(list) |-> list[k].amountCents]

Abs(n) == IF n < 0 THEN -n ELSE n

(* The creditors: filter, map to fresh {memberId, name, amountCents}        *)
(* objects, sort descending.                                                *)
Creditors(bal) ==
    LET kept == SelectSeq(bal, LAMBDA b : compare(b.netBalance, Zero) > 0)
        made == [k \in 1..Len(kept) |->
                    [memberId |-> kept[k].memberId, name |-> kept[k].name,
                     amountCents |-> toCents(kept[k].netBalance)]]
    IN  SortDescBy(made, AmountCents(made))

Debtors(bal) ==
    LET kept == SelectSeq(bal, LAMBDA b : compare(b.netBalance, Zero) < 0)
        made == [k \in 1..Len(kept) |->
                    [memberId |-> kept[k].memberId, name |-> kept[k].name,
                     amountCents |-> Abs(toCents(kept[k].netBalance))]]
    IN  SortDescBy(made, AmountCents(made))

(* The state of calculateSettlements at the head of its while loop. *)
LoopStart(bal) ==
    [creditors |-> Creditors(bal), debtors |-> Debtors(bal),
     i |-> 1, j |-> 1, settlements |-> <<>>]

LoopCond(st) == st.i <= Len(st.creditors) /\ st.j <= Len(st.debtors)

SettlementCentsOneCent(creditor, debtor) ==
    Min(1, Min(creditor.amountCents, debtor.amountCents))

SettlementCentsMax(creditor, debtor) ==
    IF creditor.amountCents > debtor.amountCents
    THEN creditor.amountCents ELSE debtor.amountCents

SettlementCents(creditor, debtor) ==
    Min(creditor.amountCents, debtor.amountCents)

AdvanceAlways(cursor, left) == cursor + 1

(* if (x.amountCents === 0) cursor++ *)
Advance(cursor, left) == IF left = 0 THEN cursor + 1 ELSE cursor

(* One iteration of the while loop. *)
LoopBody(st) ==
    LET creditor        == st.creditors[st.i]
        debtor          == st.debtors[st.j]
        settlementCents == SettlementCents(creditor, debtor)
        creditorLeft    == creditor.amountCents - settlementCents
        debtorLeft      == debtor.amountCents - settlementCents
    IN  [creditors   |-> [st.creditors EXCEPT ![st.i].amountCents = creditorLeft],
         debtors     |-> [st.debtors EXCEPT ![st.j].amountCents = debtorLeft],
         i           |-> Advance(st.i, creditorLeft),
         j           |-> Advance(st.j, debtorLeft),
         settlements |->
            IF settlementCents > 0
            THEN Append(st.settlements,
                    [from   |-> debtor.name,   fromId |-> debtor.memberId,
                     to     |-> creditor.name, toId   |-> creditor.memberId,
                     amount |-> fromCents(settlementCents)])
            ELSE st.settlements]

RECURSIVE RunLoop(_)
RunLoop(st) == IF LoopCond(st) THEN RunLoop(LoopBody(st)) ELSE st

calculateSettlements(bal) == RunLoop(LoopStart(bal)).settlements

----------------------------------------------------------------------------
(* Placeholders for the variables a specification does not use.            *)

AppIdle ==
    /\ members = <<>>
    /\ expenses = <<>>
    /\ currentStep = 1
    /\ feedback = NoFeedback
    /\ stored = [members |-> <<>>, expenses |-> <<>>, currentStep |-> 1,
                 feedback |-> NoFeedback]
    /\ ret = [kind |-> "none"]
    /\ now = 0
    /\ nextId = 0

DecIdle ==
    /\ arg = <<>>
    /\ res = <<>>

CalcIdle ==
    /\ balances = <<>>
    /\ creditors = <<>>
    /\ debtors = <<>>
    /\ i = 1
    /\ j = 1
    /\ settlements = <<>>
    /\ run = 1
    /\ outs = <<>>

----------------------------------------------------------------------------
(* Spec: the State operations, the render that touches State, and page      *)
(* loads, from the state App.init leaves on an empty localStorage.          *)

(* The arguments tried on addExpense: every combination of a valid title   *)
(* and amount with any payer and any participant list over the members and  *)
(* one id that is no member's, and every title and amount, valid or not,    *)
(* with one payer as the only participant.                                  *)
GhostId == MaxIds + 1

PayerInputs == Ids(members) \cup {NoId, GhostId}

AddExpenseInputs ==
    { <<t, a, p, sb>> :
        t \in {<<"t">>},
        a \in {<<"0", ".", "0", "1">>, <<"1">>},
        p \in PayerInputs,
        sb \in SeqsUpTo(Ids(members) \cup {GhostId}, MaxSplit) }
    \cup
    { <<t, a, p, <<p>> >> :
        t \in TitleInputs, a \in AmountInputs, p \in PayerInputs }

Init ==
    /\ AppIdle /\ DecIdle /\ CalcIdle
    /\ pc = "app"

Next ==
    \/ StateInit
    \/ \E step \in 1..MaxStep : setCurrentStep(step)
    \/ \E name \in NameInputs : addMember(name)
    \/ \E memberId \in 1..MaxIds : removeMember(memberId)
    \/ \E a \in AddExpenseInputs : addExpense(a[1], a[2], a[3], a[4])
    \/ \E expenseId \in 1..MaxIds : removeExpense(expenseId)
    \/ saveFeedback(5, <<" ", "o", "k">>)
    \/ clearAll
    \/ renderExpenses
    \/ Tick

Spec == Init /\ [][Next]_vars

----------------------------------------------------------------------------
(* calculateSettlements step by step: the setup, each iteration of the      *)
(* while loop, the return; then a second call on the same balance list.     *)

MaxBal == 5    \* members in a balance list of SpecSettle
MaxNet == 3    \* largest net balance (cents, either sign) of SpecSettle

LoopState ==
    [creditors |-> creditors, debtors |-> debtors, i |-> i, j |-> j,
     settlements |-> settlements]

SetLoopState(st) ==
    /\ creditors' = st.creditors
    /\ debtors' = st.debtors
    /\ i' = st.i
    /\ j' = st.j
    /\ settlements' = st.settlements

NetsOf(bal) == [k \in 1..Len(bal) |-> toCents(bal[k].netBalance)]

SettleBeginSortingInput ==
    /\ pc = "settle"
    /\ balances' = SortDescBy(balances, NetsOf(balances))
    /\ SetLoopState(LoopStart(balances))
    /\ pc' = "settle_loop"
    /\ UNCHANGED <<appVars, decVars, run, outs>>

(* Lines 264-284: filter and map build new arrays of new objects, so the    *)
(* loop's writes to amountCents never reach the balance list.               *)
SettleBegin ==
    /\ pc = "settle"
    /\ SetLoopState(LoopStart(balances))
    /\ pc' = "settle_loop"
    /\ UNCHANGED <<appVars, decVars, balances, run, outs>>

SettleStep ==
    /\ pc = "settle_loop"
    /\ LoopCond(LoopState)
    /\ SetLoopState(LoopBody(LoopState))
    /\ UNCHANGED <<appVars, decVars, pc, balances, run, outs>>

SettleReturn ==
    /\ pc = "settle_loop"
    /\ ~LoopCond(LoopState)
    /\ outs' = Append(outs, [kind |-> "settlements", val |-> settlements])
    /\ pc' = "settle_done"
    /\ UNCHANGED <<appVars, decVars, balances, creditors, debtors, i, j,
                   settlements, run>>

SettleAgain ==
    /\ pc = "settle_done"
    /\ run = 1
    /\ run' = 2
    /\ pc' = "settle"
    /\ UNCHANGED <<appVars, decVars, balances, creditors, debtors, i, j,
                   settlements, outs>>

SettleNext == SettleBegin \/ SettleStep \/ SettleReturn \/ SettleAgain

Letters == <<"a", "b", "c", "d", "e", "f", "g", "h">>

NameOf(n) == <<Letters[n]>>

Pos(n) == IF n > 0 THEN n ELSE 0

(* A balance list as calculateBalances lays it out, for members 1..n with   *)
(* the given net balances.                                                  *)
BalanceList(nets) ==
    [k \in 1..Len(nets) |->
        [memberId   |-> k,
         name       |-> NameOf(k),
         totalPaid  |-> fromCents(Pos(nets[k])),
         totalOwed  |-> fromCents(Pos(-nets[k])),
         netBalance |-> fromCents(nets[k])]]

SettleInit ==
    /\ AppIdle /\ DecIdle
    /\ pc = "settle"
    /\ \E n \in 0..MaxBal : \E nets \in [1..n -> (-MaxNet)..MaxNet] :
          balances = BalanceList(nets)
    /\ creditors = <<>> /\ debtors = <<>> /\ i = 1 /\ j = 1
    /\ settlements = <<>> /\ run = 1 /\ outs = <<>>

SpecSettle == SettleInit /\ [][SettleNext]_vars

----------------------------------------------------------------------------
(* SpecLedger: calculateBalances called twice on a member list and an       *)
(* expense list of any shape (also with ids that are no member's), then     *)
(* calculateSettlements called twice on the balances it returned.           *)

MaxLedgerMembers  == 3
MaxLedgerExpenses == 2
MaxLedgerSplit    == 2

LedgerAmounts == { <<"0", ".", "0", "5">>, <<"1", ".", "0", "0">> }

LedgerMembers(k) ==
    [n \in 1..k |-> [id |-> n, name |-> NameOf(n), createdAt |-> 0]]

ExpenseShapes(k) ==
    { <<a, p, sb>> :
        a \in LedgerAmounts, p \in 1..(k + 1),
        sb \in SeqsUpTo(1..(k + 1), MaxLedgerSplit) }

LedgerExpenses(k, shapes) ==
    [n \in 1..Len(shapes) |->
        [id |-> k + 1 + n, title |-> <<"t">>, amount |-> shapes[n][1],
         paidBy |-> shapes[n][2], splitBetween |-> shapes[n][3],
         createdAt |-> 0]]

LedgerInit ==
    /\ \E k \in 0..MaxLedgerMembers :
          \E shapes \in SeqsUpTo(ExpenseShapes(k), MaxLedgerExpenses) :
              /\ members = LedgerMembers(k)
              /\ expenses = LedgerExpenses(k, shapes)
    /\ currentStep = 1
    /\ feedback = NoFeedback
    /\ stored = Snapshot(<<>>, <<>>, 1, NoFeedback)
    /\ ret = [kind |-> "none"]
    /\ now = 0
    /\ nextId = 0
    /\ DecIdle /\ CalcIdle
    /\ pc = "ledger"

LedgerCallSortingExpenses ==
    /\ pc = "ledger"
    /\ LET r == calculateBalances(members, expenses)
       IN  /\ outs' = Append(outs, r)
           /\ expenses' = SortDescBy(expenses, [k \in 1..Len(expenses) |-> expenses[k].paidBy])
           /\ IF Len(outs) = 1
              THEN /\ pc' = IF r.kind = "ok" THEN "settle" ELSE "ledger_thrown"
                   /\ balances' = IF r.kind = "ok" THEN r.balances ELSE balances
              ELSE UNCHANGED <<pc, balances>>
    /\ UNCHANGED <<members, currentStep, feedback, stored, ret, now, nextId,
                   decVars, creditors, debtors, i, j, settlements, run>>

(* calculateBalances builds its result and balanceMap afresh and only reads *)
(* members and expenses.  After the second call the result is handed on.    *)
LedgerCall ==
    /\ pc = "ledger"
    /\ LET r == calculateBalances(members, expenses)
       IN  /\ outs' = Append(outs, r)
           /\ IF Len(outs) = 1
              THEN /\ pc' = IF r.kind = "ok" THEN "settle" ELSE "ledger_thrown"
                   /\ balances' = IF r.kind = "ok" THEN r.balances ELSE balances
              ELSE UNCHANGED <<pc, balances>>
    /\ UNCHANGED <<appVars, decVars, creditors, debtors, i, j, settlements, run>>

LedgerNext == LedgerCall \/ SettleBegin \/ SettleStep \/ SettleReturn \/ SettleAgain

SpecLedger == LedgerInit /\ [][LedgerNext]_vars

----------------------------------------------------------------------------
(* SpecMoney: Decimal.toCents then Decimal.fromCents on a two-decimal       *)
(* string.                                                                  *)

DigitStrings(n) == [1..n -> DigitSet]

(* -?d+.dd with at most MaxIntDigits digits before the point. *)
TwoDecimalStrings ==
    { sg \o ip \o <<".">> \o fp :
        sg \in {<<>>, <<"-">>},
        ip \in UNION {DigitStrings(n) : n \in 1..MaxIntDigits},
        fp \in DigitStrings(2) }

MoneyInit ==
    /\ AppIdle /\ CalcIdle
    /\ pc = "money"
    /\ arg \in TwoDecimalStrings
    /\ res = <<>>

MoneyToCents ==
    /\ pc = "money"
    /\ res' = [cents |-> toCents(arg)]
    /\ pc' = "money_parsed"
    /\ UNCHANGED <<appVars, calcVars, arg>>

MoneyFromCents ==
    /\ pc = "money_parsed"
    /\ res' = [cents |-> res.cents, str |-> fromCents(res.cents)]
    /\ pc' = "money_done"
    /\ UNCHANGED <<appVars, calcVars, arg>>

MoneyNext == MoneyToCents \/ MoneyFromCents

SpecMoney == MoneyInit /\ [][MoneyNext]_vars

----------------------------------------------------------------------------
(* SpecDivide: Decimal.divideEqually on the amount string of a total.       *)

DivideInit ==
    /\ AppIdle /\ CalcIdle
    /\ pc = "divide"
    /\ \E t \in 0..MaxTotal, n \in 0..MaxParts :
          arg = [total |-> t, amount |-> fromCents(t), parts |-> n]
    /\ res = <<>>

DivideCall ==
    /\ pc = "divide"
    /\ res' = divideEqually(arg.amount, arg.parts)
    /\ pc' = "divide_done"
    /\ UNCHANGED <<appVars, calcVars, arg>>

DivideNext == DivideCall

SpecDivide == DivideInit /\ [][DivideNext]_vars

----------------------------------------------------------------------------
(* SpecScenario: the Calculator on small ledgers of whole amounts, as       *)
(* UI.renderSettlements calls it (calculateBalances, then                   *)
(* calculateSettlements on its result), and calculateSettlements called     *)
(* directly on a balance list of any shape.                                 *)

MaxScenarioMembers  == 3    \* members of a ledger of SpecScenario
MaxScenarioExpenses == 2    \* expenses of a ledger of SpecScenario
MaxScenarioBal      == 3    \* members in a balance list given directly
MaxScenarioNet      == 2    \* largest net balance (cents) given directly

ScenarioAmounts ==
    { <<"1", "0", "0", ".", "0", "0">>, <<"5", "0", ".", "0", "0">> }

ScenarioNames == << <<"A">>, <<"B">>, <<"C">>, <<"D">> >>

ScenarioMembers(k) ==
    [n \in 1..k |-> [id |-> n, name |-> ScenarioNames[n], createdAt |-> 0]]

(* The participant lists the expense form builds: checked members, each     *)
(* once, at least one.                                                      *)
DistinctSeqs(S, n) ==
    { q \in SeqsUpTo(S, n) :
        /\ q # <<>>
        /\ \A a, b \in 1..Len(q) : a # b => q[a] # q[b] }

ScenarioShapes(k) ==
    { <<a, p, sb>> :
        a \in ScenarioAmounts, p \in 1..k, sb \in DistinctSeqs(1..k, k) }

ScenarioInit ==
    /\ DecIdle
    /\ \/ /\ \E k \in 1..MaxScenarioMembers :
                \E shapes \in SeqsUpTo(ScenarioShapes(k), MaxScenarioExpenses) :
                    /\ members = ScenarioMembers(k)
                    /\ expenses = LedgerExpenses(k, shapes)
             /\ currentStep = 1
             /\ feedback = NoFeedback
             /\ stored = Snapshot(<<>>, <<>>, 1, NoFeedback)
             /\ ret = [kind |-> "none"]
             /\ now = 0
             /\ nextId = 0
             /\ balances = <<>>
             /\ pc = "ledger"
       \/ /\ AppIdle
             /\ \E n \in 0..MaxScenarioBal :
                \E nets \in [1..n -> (-MaxScenarioNet)..MaxScenarioNet] :
                    balances = BalanceList(nets)
             /\ pc = "settle"
    /\ creditors = <<>> /\ debtors = <<>> /\ i = 1 /\ j = 1
    /\ settlements = <<>> /\ run = 1 /\ outs = <<>>

SpecScenario == ScenarioInit /\ [][LedgerNext]_vars

----------------------------------------------------------------------------
(* C1: the balances of the stored members and expenses conserve money: the  *)
(* totalPaid values sum to the totalOwed values and the netBalance values   *)
(* sum to zero.                                                             *)

BalancesNow == calculateBalances(members, expenses)

SumCents(strs) == SumSeq([k \in 1..Len(strs) |-> toCents(strs[k])])

(* C1 as stated: in every state the State operations reach, the balances   *)
(* are computed and conserve money.                                         *)
C1_Conservation ==
    pc = "app" =>
        /\ BalancesNow.kind = "ok"
        /\ LET bal == BalancesNow.balances
           IN  /\ SumCents([k \in 1..Len(bal) |-> bal[k].totalPaid])
                    = SumCents([k \in 1..Len(bal) |-> bal[k].totalOwed])
               /\ SumCents([k \in 1..Len(bal) |-> bal[k].netBalance]) = 0

----------------------------------------------------------------------------
(* C3: for the balances of the stored members and expenses, what each       *)
(* member receives in the settlements minus what the member pays equals the *)
(* member's net balance.                                                    *)

Received(setts, x) ==
    SumSeq([k \in 1..Len(setts) |->
        IF setts[k].toId = x THEN toCents(setts[k].amount) ELSE 0])

Paid(setts, x) ==
    SumSeq([k \in 1..Len(setts) |->
        IF setts[k].fromId = x THEN toCents(setts[k].amount) ELSE 0])

Neutralizes(setts, bal) ==
    \A k \in 1..Len(bal) :
        Received(setts, bal[k].memberId) - Paid(setts, bal[k].memberId)
            = toCents(bal[k].netBalance)

(* C3 as stated: the settlements of the stored data neutralize every        *)
(* member's net balance.                                                    *)
C3_SettlementsNeutralize ==
    (pc = "app" /\ BalancesNow.kind = "ok") =>
        Neutralizes(calculateSettlements(BalancesNow.balances),
                    BalancesNow.balances)

----------------------------------------------------------------------------
(* C4: for a balance list that sums to zero, the number of payments.  The   *)
(* fewest payments that zero a list of balances is the number of non-zero   *)
(* balances minus the largest number of zero-sum groups they split into.    *)

Nets == NetsOf(balances)

NonZero == {k \in 1..Len(balances) : Nets[k] # 0}

RECURSIVE SumOver(_)
SumOver(S) ==
    IF S = {} THEN 0
    ELSE LET x == CHOOSE x \in S : TRUE IN Nets[x] + SumOver(S \ {x})

SetMax(S) == CHOOSE x \in S : \A y \in S : y <= x

RECURSIVE MaxZeroParts(_)
MaxZeroParts(S) ==
    IF S = {} THEN 0
    ELSE LET x == CHOOSE x \in S : TRUE
         IN  SetMax({ 1 + MaxZeroParts(S \ T) :
                        T \in {T \in SUBSET S : x \in T /\ SumOver(T) = 0} })

MinPayments == Cardinality(NonZero) - MaxZeroParts(NonZero)

SumsToZero == SumSeq(Nets) = 0

(* C4 as stated: on a zero-sum balance list no sequence of payments zeroing *)
(* the balances is shorter than the one returned.                           *)
C4_MinimalCardinality ==
    (pc = "settle_done" /\ SumsToZero) => Len(settlements) <= MinPayments

(* C4 as amended: at most (creditors + debtors - 1) payments, which zero    *)
(* every balance; that is the minimum whenever no proper non-empty subset   *)
(* of the non-zero balances sums to zero.                                   *)
C4_AtMostOneLessThanParties ==
    (pc = "settle_done" /\ SumsToZero) =>
        /\ Len(settlements) <= Pos(Cardinality(NonZero) - 1)
        /\ Neutralizes(settlements, balances)
        /\ (MaxZeroParts(NonZero) <= 1 => Len(settlements) = MinPayments)

C4_Witness ==
    /\ pc = "settle_done"
    /\ Nets = <<3, 2, -2, -2, -1>>
    /\ Len(settlements) = 4
    /\ MinPayments = 3

----------------------------------------------------------------------------
(* C5: the matching loop terminates, and on a balance list that sums to     *)
(* zero it leaves the loop with both cursors past the end of their lists    *)
(* and every creditor and debtor at zero.  Termination is stated by a       *)
(* variant: the cursors stay within one past the end of their lists, and    *)
(* every iteration the loop can take from a reachable state makes i + j     *)
(* strictly larger, so a call makes at most Len(creditors) + Len(debtors)   *)
(* iterations.                                                              *)

AllZero(list) == \A k \in 1..Len(list) : list[k].amountCents = 0

LoopLeft == pc = "settle_loop" /\ ~LoopCond(LoopState)

(* C5: bounded cursors, a strictly increasing i + j, and a balanced exit.   *)
C5_TerminatesBalanced ==
    pc = "settle_loop" =>
        /\ i \in 1..(Len(creditors) + 1)
        /\ j \in 1..(Len(debtors) + 1)
        /\ LoopCond(LoopState) =>
              LoopBody(LoopState).i + LoopBody(LoopState).j > i + j
        /\ SumsToZero =>
              /\ (i > Len(creditors)) <=> (j > Len(debtors))
              /\ LoopLeft => AllZero(creditors) /\ AllZero(debtors)

C5_Witness ==
    /\ pc = "settle_done"
    /\ SumsToZero
    /\ Len(creditors) >= 2 /\ Len(debtors) >= 2
    /\ i = Len(creditors) + 1 /\ j = Len(debtors) + 1
    /\ Len(settlements) >= 3

----------------------------------------------------------------------------
(* C6: calculateBalances on an expense whose payer or participant is no     *)
(* member ends in an InvalidReference failure.                              *)

----------------------------------------------------------------------------
(* C7: a second call of calculateBalances or of calculateSettlements on the *)
(* same input returns what the first returned, and no step of a call        *)
(* changes the members, the expenses or the balance list it was given.      *)

(* C7: inputs untouched by every step, equal results of the two calls.      *)
C7_Idempotent ==
    [][ /\ members' = members
        /\ expenses' = expenses
        /\ (pc # "ledger" => balances' = balances)
        /\ (Len(outs') >= 2 => outs'[1] = outs'[2])
        /\ (Len(outs') >= 4 => outs'[3] = outs'[4]) ]_vars

C7_Witness ==
    /\ pc = "settle_done"
    /\ Len(outs) = 4
    /\ outs[1].kind = "ok" /\ outs[2] = outs[1]
    /\ Len(outs[3].val) >= 2 /\ outs[4] = outs[3]

----------------------------------------------------------------------------
(* C8: removeMember on a member that some stored expense names as payer or  *)
(* participant returns false and changes neither members nor expenses; on a *)
(* member no expense names it returns true, removes that member only and    *)
(* leaves the expenses alone.                                               *)

Referenced(memberId) ==
    \E k \in 1..Len(expenses) :
        \/ expenses[k].paidBy = memberId
        \/ memberId \in {expenses[k].splitBetween[p] :
                            p \in 1..Len(expenses[k].splitBetween)}

Without(list, memberId) == SelectSeq(list, LAMBDA m : m.id # memberId)

(* C8: every removeMember step on a member refuses or removes as described. *)
C8_RemoveMemberGuarded ==
    [][ \A memberId \in 1..MaxIds :
          (memberId \in Ids(members) /\ removeMember(memberId)) =>
            /\ expenses' = expenses
            /\ ret'.kind = "bool"
            /\ IF Referenced(memberId)
               THEN ret'.val = FALSE /\ members' = members
               ELSE /\ ret'.val = TRUE
                    /\ members' = Without(members, memberId)
                    /\ Len(members') = Len(members) - 1 ]_vars

C8_Witness ==
    /\ pc = "app"
    /\ ret = [kind |-> "bool", val |-> FALSE]
    /\ Len(members) = 2
    /\ Len(expenses) = 1
    /\ Referenced(members[2].id) /\ ~Referenced(members[1].id)

----------------------------------------------------------------------------
(* C9: the stored snapshot equals the members, expenses, current step and   *)
(* feedback in memory.                                                      *)

(* C9 as stated: in every reachable state the snapshot equals the memory.   *)
C9_SnapshotMatchesMemory ==
    pc = "app" => stored = Snapshot(members, expenses, currentStep, feedback)

----------------------------------------------------------------------------
(* C2: for a non-negative total and a positive part count n, divideEqually  *)
(* returns n shares that sum to the total; each is floor(total/n) or        *)
(* floor(total/n)+1 cents, and exactly the first (total mod n) shares carry *)
(* the extra cent.                                                          *)

ShareCents == [k \in 1..Len(res) |-> toCents(res[k])]

(* C2: the shares of divideEqually(fromCents(total), n), n > 0.             *)
C2_DivideExact ==
    (pc = "divide_done" /\ arg.parts > 0) =>
        /\ Len(res) = arg.parts
        /\ SumSeq(ShareCents) = arg.total
        /\ \A k \in 1..Len(res) :
              ShareCents[k] =
                  (arg.total \div arg.parts)
                  + (IF k <= arg.total % arg.parts THEN 1 ELSE 0)
        /\ \A k \in 1..Len(res) : res[k] = fromCents(ShareCents[k])

C2_Witness ==
    /\ pc = "divide_done"
    /\ arg.total = 10 /\ arg.parts = 3
    /\ res = << <<"0", ".", "0", "4">>, <<"0", ".", "0", "3">>,
                <<"0", ".", "0", "3">> >>

----------------------------------------------------------------------------
(* C10: fromCents(toCents(s)) = s.  The original statement, for every       *)
(* string -?d+.dd, and the statement for the strings in canonical form: no  *)
(* superfluous leading zero and no minus sign on zero.                      *)

Canonical(s) ==
    LET u  == Unsigned(s)
        ip == IntDigits(u)
    IN  /\ (Len(ip) > 1 => ip[1] # "0")
        /\ (s[1] = "-" => toCents(s) # 0)

(* C10 as stated: the round trip returns every string -?d+.dd unchanged.    *)
C10_RoundTripAll ==
    pc = "money_done" => res.str = arg

(* C10 as amended: the round trip returns every canonical string unchanged. *)
C10_RoundTripCanonical ==
    (pc = "money_done" /\ Canonical(arg)) => res.str = arg

C10_Witness ==
    /\ pc = "money_done"
    /\ arg = <<"-", "1", "0", ".", "0", "5">>
    /\ Canonical(arg)
    /\ res.cents = -1005
    /\ res.str = arg

----------------------------------------------------------------------------
(* C11: members A, B, C and one expense of 100.00 paid by A with the        *)
(* participants [A, B, C].                                                  *)

C11_Input ==
    /\ members = ScenarioMembers(3)
    /\ Len(expenses) = 1
    /\ expenses[1].amount = <<"1", "0", "0", ".", "0", "0">>
    /\ expenses[1].paidBy = 1
    /\ expenses[1].splitBetween = <<1, 2, 3>>

(* C11: on that ledger the shares are A=33.34, B=33.33, C=33.33, the net    *)
(* balances are A=66.66, B=-33.33, C=-33.33, and the settlements returned   *)
(* are B pays A 33.33, then C pays A 33.33.                                 *)
C11_ThreeWaySplit ==
    C11_Input =>
        /\ calculateExpenseShares(expenses[1]) =
              << [memberId |-> 1, amount |-> <<"3", "3", ".", "3", "4">>],
                 [memberId |-> 2, amount |-> <<"3", "3", ".", "3", "3">>],
                 [memberId |-> 3, amount |-> <<"3", "3", ".", "3", "3">>] >>
        /\ Len(outs) >= 1 =>
              /\ outs[1].kind = "ok"
              /\ [k \in 1..Len(outs[1].balances) |->
                     <<outs[1].balances[k].name, outs[1].balances[k].netBalance>>]
                 = << << <<"A">>, <<"6", "6", ".", "6", "6">> >>,
                      << <<"B">>, <<"-", "3", "3", ".", "3", "3">> >>,
                      << <<"C">>, <<"-", "3", "3", ".", "3", "3">> >> >>
        /\ Len(outs) >= 3 =>
              outs[3] =
                [kind |-> "settlements",
                 val |->
                   << [from |-> <<"B">>, fromId |-> 2, to |-> <<"A">>, toId |-> 1,
                       amount |-> <<"3", "3", ".", "3", "3">>],
                      [from |-> <<"C">>, fromId |-> 3, to |-> <<"A">>, toId |-> 1,
                       amount |-> <<"3", "3", ".", "3", "3">>] >>]

C11_Witness ==
    /\ C11_Input
    /\ pc = "settle_done"
    /\ Len(outs) = 3
    /\ Len(outs[3].val) = 2

----------------------------------------------------------------------------
(* C12: calculateSettlements on a balance list with no creditor or with no  *)
(* debtor, and the ledger of two members who each pay the same amount split *)
(* between both.                                                            *)

NoCreditor == \A k \in 1..Len(balances) : toCents(balances[k].netBalance) <= 0

NoDebtor == \A k \in 1..Len(balances) : toCents(balances[k].netBalance) >= 0

C12_Input ==
    /\ members = ScenarioMembers(2)
    /\ Len(expenses) = 2
    /\ expenses[1].paidBy = 1
    /\ expenses[2].paidBy = 2
    /\ expenses[1].amount = expenses[2].amount
    /\ Len(expenses[1].splitBetween) = 2
    /\ Len(expenses[2].splitBetween) = 2

(* C12: a finished call on a list with no creditor or no debtor returned    *)
(* the empty list; on the two-member ledger both net balances are 0.00 and  *)
(* the settlement list is empty.                                            *)
C12_EmptyWhenOneSided ==
    /\ (pc = "settle_done" /\ (NoCreditor \/ NoDebtor)) =>
          /\ settlements = <<>>
          /\ outs[Len(outs)] = [kind |-> "settlements", val |-> <<>>]
    /\ (C12_Input /\ Len(outs) >= 1) =>
          /\ outs[1].kind = "ok"
          /\ \A k \in 1..2 :
                outs[1].balances[k].netBalance = <<"0", ".", "0", "0">>
    /\ (C12_Input /\ Len(outs) >= 3) =>
          outs[3] = [kind |-> "settlements", val |-> <<>>]

C12_Witness ==
    /\ C12_Input
    /\ expenses[1].amount = <<"5", "0", ".", "0", "0">>
    /\ pc = "settle_done"
    /\ Len(outs) = 3
    /\ balances = outs[1].balances
    /\ NoCreditor /\ NoDebtor

----------------------------------------------------------------------------
(* C13: every stored expense has a positive amount, at least one            *)
(* participant, a payer who is a member and only members as participants.   *)

ValidExpenses(ms, es) ==
    \A k \in 1..Len(es) :
        /\ toCents(es[k].amount) > 0
        /\ Len(es[k].splitBetween) > 0
        /\ es[k].paidBy \in Ids(ms)
        /\ \A p \in 1..Len(es[k].splitBetween) : es[k].splitBetween[p] \in Ids(ms)

(* C13: in every reachable state the expenses in memory are valid against   *)
(* the members in memory, and so are those of the persisted snapshot.       *)
C13_StoredExpensesValid ==
    pc = "app" =>
        /\ ValidExpenses(members, expenses)
        /\ ValidExpenses(stored.members, stored.expenses)

C13_Witness ==
    /\ pc = "app"
    /\ Len(members) = 2
    /\ Len(expenses) = 1
    /\ expenses[1].paidBy = members[1].id
    /\ expenses[1].splitBetween = <<members[2].id, members[1].id>>
    /\ ret = [kind |-> "bool", val |-> FALSE]
    /\ stored.expenses = expenses

----------------------------------------------------------------------------
(* C14: addExpense with an amount that parses to zero, a negative or no     *)
(* number, with an empty title, with a payer or a participant that is no    *)
(* member, or with no participant returns null, constructs no expense and   *)
(* leaves members, expenses and the persisted snapshot as they were.        *)

Rejectable(title, amount, paidBy, splitBetween) ==
    \/ toCents(amount) <= 0
    \/ Trim(title) = <<>>
    \/ paidBy \notin Ids(members)
    \/ \E p \in 1..Len(splitBetween) : splitBetween[p] \notin Ids(members)
    \/ splitBetween = <<>>

(* C14: addExpense returns null or the expense it stored; every step that   *)
(* returns one of these either returns null and changes nothing (no id is   *)
(* generated either), or is no addExpense step on such arguments.           *)
C14_AddExpenseRejects ==
    [][ ret'.kind \in {"null", "expense"} =>
          \/ /\ ret'.kind = "null"
             /\ members' = members
             /\ expenses' = expenses
             /\ stored' = stored
             /\ nextId' = nextId
          \/ \A a \in AddExpenseInputs :
                ~(Rejectable(a[1], a[2], a[3], a[4])
                  /\ addExpense(a[1], a[2], a[3], a[4])) ]_vars

C14_Witness ==
    /\ pc = "app"
    /\ ret = NullOf("addExpense")
    /\ Len(members) = 2
    /\ Len(expenses) = 1
    /\ stored = Snapshot(members, expenses, currentStep, feedback)

----------------------------------------------------------------------------
(* C16: no two members have names that are equal after trimming and         *)
(* lower-casing, and addMember with an empty name or with a name that       *)
(* matches a member's case-insensitively returns null and leaves the member *)
(* list as it was.                                                          *)

Folded(name) == toLowerCase(Trim(name))

NamesUnique(ms) ==
    \A a, b \in 1..Len(ms) : a # b => Folded(ms[a].name) # Folded(ms[b].name)

NameTaken(name) ==
    \E k \in 1..Len(members) : Folded(members[k].name) = Folded(name)

(* C16: unique names before and after every step, and every step either     *)
(* returns null and keeps the member list, or is no addMember step with an  *)
(* empty or a taken name.                                                   *)
C16_NamesUnique ==
    [][ /\ NamesUnique(members)
        /\ NamesUnique(members')
        /\ \/ /\ ret'.kind = "null"
              /\ members' = members
              /\ stored' = stored
           \/ \A name \in NameInputs :
                 ~((Trim(name) = <<>> \/ NameTaken(name)) /\ addMember(name)) ]_vars

C16_Witness ==
    /\ pc = "app"
    /\ ret = NullOf("addMember")
    /\ Len(members) = 2
    /\ members[1].name = <<"A">>
    /\ members[2].name = <<"b">>

----------------------------------------------------------------------------
(* C15: calculateSettlements takes the creditors in descending order of     *)
(* credit and the debtors in descending order of debt, members of equal     *)
(* magnitude in the order of the balance list; the settlements name the     *)
(* creditors in that order and, for one creditor, the debtors in theirs.    *)

OrigPos(id) == CHOOSE k \in 1..Len(balances) : balances[k].memberId = id

NetOfId(id) == Nets[OrigPos(id)]

Before(x, y) ==
    \/ Abs(NetOfId(x)) > Abs(NetOfId(y))
    \/ Abs(NetOfId(x)) = Abs(NetOfId(y)) /\ OrigPos(x) < OrigPos(y)

InOrder(ids) == \A p, q \in 1..Len(ids) : p < q => Before(ids[p], ids[q])

MemberIds(list) == [k \in 1..Len(list) |-> list[k].memberId]

Credits == {balances[k].memberId : k \in {k \in 1..Len(balances) : Nets[k] > 0}}

Debts == {balances[k].memberId : k \in {k \in 1..Len(balances) : Nets[k] < 0}}

(* C15: the creditor and debtor lists of a call hold exactly the creditors  *)
(* and the debtors, each once, in descending stable order, and so do the    *)
(* toId and fromId of the settlements built so far.                         *)
C15_SortedStable ==
    pc \in {"settle_loop", "settle_done"} =>
        /\ Len(creditors) = Cardinality(Credits)
        /\ {creditors[k].memberId : k \in 1..Len(creditors)} = Credits
        /\ InOrder(MemberIds(creditors))
        /\ Len(debtors) = Cardinality(Debts)
        /\ {debtors[k].memberId : k \in 1..Len(debtors)} = Debts
        /\ InOrder(MemberIds(debtors))
        /\ \A p, q \in 1..Len(settlements) :
              p < q =>
                /\ \/ settlements[p].toId = settlements[q].toId
                   \/ Before(settlements[p].toId, settlements[q].toId)
                /\ \/ settlements[p].fromId = settlements[q].fromId
                   \/ Before(settlements[p].fromId, settlements[q].fromId)
                /\ settlements[p].toId = settlements[q].toId =>
                      Before(settlements[p].fromId, settlements[q].fromId)

C15_Witness ==
    /\ pc = "settle_done"
    /\ Nets = <<1, -2, 2, 2, -3>>
    /\ [k \in 1..Len(settlements) |-> settlements[k].toId] = <<3, 4, 4, 1>>
    /\ [k \in 1..Len(settlements) |-> settlements[k].fromId] = <<5, 5, 2, 2>>

----------------------------------------------------------------------------
(* C17: on any balance list, also one that does not sum to zero, every      *)
(* iteration of the matching loop advances a cursor; every settlement has a *)
(* positive amount and goes from a debtor to a different member who is a    *)
(* creditor; no member pays more than the debt or receives more than the    *)
(* credit; and the number of settlements is bounded by the number of        *)
(* creditors and debtors.                                                   *)

StepsAndPayments ==
    /\ (pc = "settle_loop" /\ LoopCond(LoopState)) =>
          LET nx == LoopBody(LoopState)
          IN  /\ nx.i >= i /\ nx.j >= j
              /\ nx.i > i \/ nx.j > j
    /\ pc \in {"settle_loop", "settle_done"} =>
          /\ \A k \in 1..Len(settlements) :
                /\ toCents(settlements[k].amount) > 0
                /\ settlements[k].fromId \in Debts
                /\ settlements[k].toId \in Credits
                /\ settlements[k].fromId # settlements[k].toId
          /\ \A k \in 1..Len(balances) :
                /\ Paid(settlements, balances[k].memberId) <= Pos(-Nets[k])
                /\ Received(settlements, balances[k].memberId) <= Pos(Nets[k])

(* C17 as stated: at most (creditors + debtors - 1) settlements on any      *)
(* balance list.                                                            *)
C17_AtMostPartiesLessOne ==
    /\ StepsAndPayments
    /\ pc = "settle_done" =>
          Len(settlements) <= Cardinality(Credits) + Cardinality(Debts) - 1

(* C17 as amended: at most (creditors + debtors - 1) settlements when there *)
(* is a creditor or a debtor, and none when there is neither.               *)
C17_AtMostPartiesLessOneOrNone ==
    /\ StepsAndPayments
    /\ pc = "settle_done" =>
          Len(settlements) <= Pos(Cardinality(Credits) + Cardinality(Debts) - 1)

C17_Witness ==
    /\ pc = "settle_done"
    /\ Nets = <<3, -1, -1, 2>>
    /\ Len(settlements) = 2
    /\ i = 1 /\ j = 3
    /\ creditors[1].amountCents = 1

=============================================================================
